---- MODULE Spec2Model ----
(***************************************************************************)
(* DayFlow: the timeline reconciliation of the popup (src/popup.js) and   *)
(* the badge of the service worker (src/background.js).                    *)
(*                                                                         *)
(* Instants are abstract clock values 0..MaxTime of one calendar day; a   *)
(* Date object is its instant.  An event object is a record, an object    *)
(* reference is the index of the record in the `events` array it lives in. *)
(* chrome.storage.local operations take effect in the order they are       *)
(* issued and their callbacks are delivered in that order; every `await`   *)
(* is a suspension point at which other handlers may run.                  *)
(***************************************************************************)
EXTENDS Integers, Sequences, FiniteSets, TLC

\* ---------------------------------------------------------------- bounds
MaxTime   == 2      \* instants of the day are 0..MaxTime
MaxEvents == 2      \* items in the provider's answer
MaxTasks  == 2      \* asynchronous handlers in flight at once
MaxDay    == 4      \* calendar days are 0..MaxDay
MaxBgEvents == 2    \* items in the answer the background context fetches
MaxMark   == 3      \* the background's events start at 0..MaxMark times Grain minutes
MaxNotes  == 2      \* notifications counted per event

\* ------------------------------------------------------ program constants
Minute       == 60000   \* milliseconds: ... / 60000
BadgeHorizon == 15      \* minsUntil <= 15
NotifyAt     == 5       \* minsUntil === 5

Time == 0..MaxTime
Null == 0           \* JavaScript null / undefined for references and counts
NoDT == -1          \* a raw start/end without a dateTime (an all-day event)
NoRecord == [streak |-> Null, streakLastDate |-> -1]
NoPrev == [day |-> -1, count |-> Null]
BadDT == -2         \* a raw dateTime string that Date cannot parse
InvalidDate == -2   \* new Date(<unparsable string>): an Invalid Date
NoSummary == <<>>   \* a raw item without a summary; <<s>> is the summary s
NullEvent == [id |-> Null, title |-> "", start |-> NoDT, end |-> NoDT, mc |-> FALSE]  \* normalizeEvent's null

VARIABLES
  \* ---- the interactive context (popup.js) -------------------------------
  now,          \* the wall clock (new Date())
  provider,     \* data.items the calendar API answers with today
  popup,        \* "closed" | "open": whether the popup page is alive
  view,         \* "loading" | "main" | "sign-in" | "general" (visible pane)
  listeners,    \* the button listeners of DOMContentLoaded are registered
  events,       \* let events
  classified,   \* let classified (references are indexes)
  fresh,        \* classified refers to objects of the current events array
  completedIds, \* let completedIds
  drawerOpen,   \* let drawerOpen
  expandShown,  \* expandBtn is displayed (set by render)
  undoable,     \* ids whose drawer row carries the undo handler (set by render)
  tickInterval, \* let tickInterval: Null or a handle
  timers,       \* number of interval timers running
  store,        \* chrome.storage.local["completed_<today>"], as a set
  tasks,        \* asynchronous handlers suspended at an await
  marked,       \* ids the user marked complete and has not undone since
  \* ---- the streak (popup.js, updateStreak) ------------------------------
  day,          \* the calendar day (todayKey())
  streakStore,  \* chrome.storage.local {streak, streakLastDate} or NoRecord
  spc,          \* position of the session's updateStreak call
  sloc,         \* its locals: streak, lastDate, today, wrote
  pill,         \* the count updateStreak returned to the handler
  prev,         \* the previous session's finished call: [day, count], or NoPrev
  \* ---- the persisted completion record (popup.js, PERSISTENCE) -----------
  record,       \* chrome.storage.local["completed_<today>"]: Absent or an array
  loaded,       \* the Set the last loadCompletedIds resolved with
  lastOp,       \* the last storage operation: [op, id, before]
  \* ---- the background context (background.js) ---------------------------
  bpc,          \* position of the updateBadge evaluation in flight
  badge,        \* the badge text: NoBadge (''), or the number n of 'n' + 'm'
  notes,        \* per event id, the notifications issued for it
  blast         \* the last finished evaluation: "none", "ok", "failed", "cleared"

sessVars   == <<now, provider, popup, view, listeners, events, classified, fresh,
                completedIds, drawerOpen, expandShown, undoable, tickInterval,
                timers, store, tasks, marked>>
streakVars == <<day, streakStore, spc, sloc, pill, prev>>
recordVars == <<record, loaded, lastOp>>
bgVars     == <<bpc, badge, notes, blast>>
vars       == <<sessVars, streakVars, recordVars, bgVars>>

Min(a, b) == IF a <= b THEN a ELSE b

restVars == <<popup, view, listeners, drawerOpen, expandShown, undoable,
              tickInterval, timers, store, tasks, marked>>

\* ------------------------------------------------------- calendar helpers

\* new Date(dateTimeString): the instant the string denotes, or an Invalid Date.
newDate(dt) == IF dt = BadDT THEN InvalidDate ELSE dt

\* raw.summary || '(no title)': an absent and an empty summary are both falsy.
eventTitle(summary) ==
  IF summary = NoSummary \/ summary = <<"">> THEN "(no title)" ELSE summary[1]

\* popup.js normalizeEvent: null when a dateTime is missing (!startDT || !endDT);
\* every other string is handed to new Date.
normalizeEvent(raw) ==
  IF raw.startDT = NoDT \/ raw.endDT = NoDT
    THEN NullEvent
    ELSE [id |-> raw.id, title |-> eventTitle(raw.summary),
          start |-> newDate(raw.startDT), end |-> newDate(raw.endDT), mc |-> FALSE]

\* (data.items || []).map(normalizeEvent).filter(Boolean)
RECURSIVE normalizeAll(_)
normalizeAll(items) ==
  IF items = <<>> THEN <<>>
  ELSE LET e == normalizeEvent(Head(items))
       IN  IF e = NullEvent THEN normalizeAll(Tail(items))
           ELSE <<e>> \o normalizeAll(Tail(items))

\* The indexes 1..Len(evs), ascending: find and filter scan the array in order.
Indexes(evs) == [i \in 1..Len(evs) |-> i]

classifyEvents_lastMatch(evs, n) ==
  LET cur    == SelectSeq(Indexes(evs), LAMBDA i : evs[i].start <= n /\ evs[i].end > n)
      future == SelectSeq(Indexes(evs), LAMBDA i : evs[i].start > n)
  IN  [current  |-> IF cur = <<>> THEN Null ELSE cur[Len(cur)],
       next     |-> IF future = <<>> THEN Null ELSE future[1],
       upcoming |-> IF future = <<>> THEN <<>> ELSE Tail(future),
       past     |-> SelectSeq(Indexes(evs), LAMBDA i : evs[i].end <= n)]

\* popup.js classifyEvents
classifyEvents(evs, n) ==
  LET cur    == SelectSeq(Indexes(evs), LAMBDA i : evs[i].start <= n /\ evs[i].end > n)
      future == SelectSeq(Indexes(evs), LAMBDA i : evs[i].start > n)
  IN  [current  |-> IF cur = <<>> THEN Null ELSE cur[1],
       next     |-> IF future = <<>> THEN Null ELSE future[1],
       upcoming |-> IF future = <<>> THEN <<>> ELSE Tail(future),
       past     |-> SelectSeq(Indexes(evs), LAMBDA i : evs[i].end <= n)]

\* A JavaScript number as a quotient num/den with den >= 0: den = 0 stands for
\* Infinity (num > 0), -Infinity (num < 0) and NaN (num = 0).
Num(k) == [num |-> k, den |-> 1]
NaN == [num |-> 0, den |-> 0]
IsNaN(p) == p.num = 0 /\ p.den = 0
\* a / b on two differences of instants; x / 0 is an infinity, 0 / 0 is NaN.
Quot(a, b) == IF b < 0 THEN [num |-> -a, den |-> -b] ELSE [num |-> a, den |-> b]
Times(p, k) == [num |-> p.num * k, den |-> p.den]
Less(p, q) == p.num * q.den < q.num * p.den
\* Math.max and Math.min: NaN as soon as one argument is NaN.
MathMax(p, q) == IF IsNaN(p) \/ IsNaN(q) THEN NaN ELSE IF Less(p, q) THEN q ELSE p
MathMin(p, q) == IF IsNaN(p) \/ IsNaN(q) THEN NaN ELSE IF Less(q, p) THEN q ELSE p

eventProgress_unclamped(event, n) ==
  Times(Quot(n - event.start, event.end - event.start), 100)

\* popup.js eventProgress
eventProgress(event, n) ==
  LET total   == event.end - event.start
      elapsed == n - event.start
  IN  MathMin(Num(100), MathMax(Num(0), Times(Quot(elapsed, total), 100)))

applyCompletedIds_noGuard(evs, ids, n) ==
  [i \in DOMAIN evs |->
     IF evs[i].id \in ids
       THEN [evs[i] EXCEPT !.mc = TRUE, !.end = n]
       ELSE evs[i]]

applyCompletedIds_flagLate(evs, ids, n) ==
  [i \in DOMAIN evs |->
     IF evs[i].id \in ids
       THEN IF evs[i].end > n
              THEN [evs[i] EXCEPT !.end = Min(evs[i].end, n)]
              ELSE [evs[i] EXCEPT !.mc = TRUE]
       ELSE evs[i]]

applyCompletedIds_restamps(evs, ids, n) ==
  [i \in DOMAIN evs |->
     IF evs[i].id \in ids /\ (evs[i].mc \/ evs[i].end > n)
       THEN [evs[i] EXCEPT !.mc = TRUE, !.end = n]
       ELSE evs[i]]

applyCompletedIds_clampsAll(evs, ids, n) ==
  [i \in DOMAIN evs |->
     IF evs[i].end > n
       THEN [evs[i] EXCEPT !.mc = TRUE, !.end = Min(evs[i].end, n)]
       ELSE evs[i]]

\* popup.js applyCompletedIds, on (events, completedIds, new Date())
applyCompletedIds(evs, ids, n) ==
  [i \in DOMAIN evs |->
     IF evs[i].id \in ids /\ evs[i].end > n
       THEN [evs[i] EXCEPT !.mc = TRUE, !.end = Min(evs[i].end, n)]
       ELSE evs[i]]

\* ------------------------------------------------------ provider answers

\* One item: a timed event with start < end, or an all-day event.
Shapes == {p \in Time \X Time : p[1] < p[2]} \cup {<<NoDT, NoDT>>}

\* orderBy=startTime: timed items come in ascending start order.
SortedByStart(f) ==
  \A i \in DOMAIN f, j \in DOMAIN f :
     (i < j /\ f[i][1] # NoDT /\ f[j][1] # NoDT) => f[i][1] <= f[j][1]

RawLists ==
  UNION { { [i \in 1..n |-> [id |-> i, summary |-> <<"Standup">>,
                             startDT |-> f[i][1], endDT |-> f[i][2]]] :
              f \in {g \in [1..n -> Shapes] : SortedByStart(g)} } :
          n \in 0..MaxEvents }

\* Items as the API may deliver them: each dateTime present and parsable (a
\* start of 0, an end of 1), present and unparsable, or missing; the summary
\* absent, empty or a text.
DateTimes(valid) == {valid, BadDT, NoDT}
Summaries == {NoSummary, <<"">>, <<"Standup">>}
AnyItems ==
  UNION { { [i \in 1..n |-> [id |-> i, summary |-> f[i][3],
                             startDT |-> f[i][1], endDT |-> f[i][2]]] :
              f \in [1..n -> DateTimes(0) \X DateTimes(1) \X Summaries] } :
          n \in 0..MaxEvents }

\* ------------------------------------------------------------ the streak

\* A day-key "YYYY-MM-DD" (todayKey) is modelled by the number of its day:
\* zero-padded keys are equal exactly when the dates are, and the key of
\* yesterday (setDate(getDate() - 1)) is the key of day - 1.
todayKey == day

updateStreak_noSameDay(streak, lastDate, today) ==
  LET yKey      == today - 1
      newStreak == IF lastDate = yKey THEN streak + 1 ELSE 1
  IN  [ret |-> newStreak, write |-> TRUE]

updateStreak_gapContinues(streak, lastDate, today) ==
  IF lastDate = today
    THEN [ret |-> streak, write |-> FALSE]
    ELSE [ret |-> streak + 1, write |-> TRUE]

\* popup.js updateStreak after `await getStreak()`: the count it resolves
\* with and whether it calls chrome.storage.local.set.
updateStreak(streak, lastDate, today) ==
  IF lastDate = today
    THEN [ret |-> streak, write |-> FALSE]
    ELSE LET yKey      == today - 1
             newStreak == IF lastDate = yKey THEN streak + 1 ELSE 1
         IN  [ret |-> newStreak, write |-> TRUE]

NoLocals == [streak |-> Null, lastDate |-> -1, today |-> -1, had |-> FALSE, wrote |-> FALSE]

\* DOMContentLoaded reaches `await updateStreak()`, which awaits getStreak().
StreakOpen ==
  /\ spc = "closed"
  /\ spc' = "get"
  /\ sloc' = NoLocals
  /\ pill' = Null
  /\ UNCHANGED <<day, streakStore, prev>>

\* getStreak's storage callback: result.streak || 1, result.streakLastDate || todayKey()
getStreak ==
  /\ spc = "get"
  /\ sloc' = [streak   |-> IF streakStore.streak = Null THEN 1 ELSE streakStore.streak,
              lastDate |-> IF streakStore.streakLastDate = -1 THEN todayKey
                           ELSE streakStore.streakLastDate,
              today    |-> -1,
              had      |-> streakStore # NoRecord,
              wrote    |-> FALSE]
  /\ spc' = "upd"
  /\ UNCHANGED <<day, streakStore, pill, prev>>

\* updateStreak resumes: today = todayKey(), compare, persist, resolve.
StreakUpdate ==
  /\ spc = "upd"
  /\ LET r == updateStreak(sloc.streak, sloc.lastDate, todayKey)
     IN  /\ streakStore' = IF r.write
                             THEN [streak |-> r.ret, streakLastDate |-> todayKey]
                             ELSE streakStore
         /\ pill' = r.ret
         /\ sloc' = [sloc EXCEPT !.today = todayKey, !.wrote = r.write]
  /\ spc' = "done"
  /\ UNCHANGED <<day, prev>>

\* The popup is closed; a finished call is remembered as the previous one.
StreakClose ==
  /\ spc # "closed"
  /\ spc' = "closed"
  /\ prev' = IF spc = "done" THEN [day |-> sloc.today, count |-> pill] ELSE prev
  /\ UNCHANGED <<day, streakStore, sloc, pill>>

\* Midnight passes (also between getStreak's and updateStreak's clock reads).
NextDay ==
  /\ day < MaxDay
  /\ day' = day + 1
  /\ UNCHANGED <<streakStore, spc, sloc, pill, prev>>

\* ------------------------------------------------- the reconciliation tick

EmptyClassified == [current |-> Null, next |-> Null, upcoming |-> <<>>, past |-> <<>>]

EventIds == 1..MaxEvents

\* The 30 s interval callback of loadAndRender, with the loaded id set as input:
\* completedIds = await loadCompletedIds(); applyCompletedIds(); render()
Reconcile ==
  \E ids \in SUBSET {e.id : e \in {events[i] : i \in DOMAIN events}} :
    /\ completedIds' = ids
    /\ events' = applyCompletedIds(events, ids, now)
    /\ classified' = classifyEvents(events', now)
    /\ fresh' = TRUE
    /\ UNCHANGED <<now, provider>>

ClockTick ==
  /\ now < MaxTime
  /\ now' = now + 1
  /\ UNCHANGED <<provider, events, classified, fresh, completedIds>>

\* fetchTodayEvents' last line on the answer of the API:
\* (data.items || []).map(normalizeEvent).filter(Boolean)
Normalize ==
  /\ fresh
  /\ events' = normalizeAll(provider)
  /\ fresh' = FALSE
  /\ UNCHANGED <<now, provider, classified, completedIds>>

\* ------------------------------------------------- the interactive context

\* A suspended handler: kind is the handler ("init" = DOMContentLoaded,
\* "signin" = the sign-in click, "undo" = the drawer's undo click, "mark" =
\* onMarkComplete, "tick" = the interval callback); pc is the await it is at;
\* id and idx are the event it captured (idx is the object, live tells whether
\* that object is still in the events array); ex is the answer of the storage
\* read it is waiting for ({} once the handler has used it).
Task(kind, pc, id, idx, live, ex) ==
  [kind |-> kind, pc |-> pc, id |-> id, idx |-> idx, live |-> live, ex |-> ex]

StoragePcs == {"ids", "svRead", "svWrite", "rmRead", "rmWrite", "reloadIds"}
Loaders == {"init", "signin", "undo"}

RemoveAt(q, i) == SubSeq(q, 1, i - 1) \o SubSeq(q, i + 1, Len(q))
\* Task i goes on with a storage operation issued now: it queues behind the
\* storage operations already issued.
Reissue(q, i, t) == RemoveAt(q, i) \o <<t>>
\* The storage callback of task i is the next one to be delivered.
StorageTurn(i) == \A j \in 1..(i - 1) : tasks[j].pc \notin StoragePcs
Room == Len(tasks) < MaxTasks

\* popup.js render (with renderNow, renderDrawer): the classification, whether
\* expandBtn is displayed, and the ids whose drawer row gets the undo handler.
render(evs, ids, open, n) ==
  LET c      == classifyEvents(evs, n)
      all    == c.past \o (IF c.current # Null THEN <<c.current>> ELSE <<>>)
                       \o (IF c.next # Null THEN <<c.next>> ELSE <<>>) \o c.upcoming
      total  == Len(evs)
      shown  == (IF c.current # Null THEN 1 ELSE 0) + (IF c.next # Null THEN 1 ELSE 0)
      hidden == total - shown
  IN  [classified  |-> c,
       expandShown |-> IF total = 0 THEN FALSE
                       ELSE IF hidden <= 0 /\ ~open THEN FALSE ELSE TRUE,
       undoable    |-> {evs[all[k]].id : k \in
                          {k \in DOMAIN all :
                             /\ ~(c.current # Null /\ evs[all[k]].id = evs[c.current].id)
                             /\ evs[all[k]].end <= n
                             /\ evs[all[k]].id \in ids}}]

Rendered(evs, ids, open) ==
  LET r == render(evs, ids, open, now)
  IN  /\ classified' = r.classified
      /\ expandShown' = r.expandShown
      /\ undoable' = r.undoable
      /\ fresh' = TRUE

\* The popup page is opened: DOMContentLoaded runs up to getAuthToken(true).
OpenPopup ==
  /\ popup = "closed"
  /\ popup' = "open"
  /\ view' = "loading"
  /\ tasks' = <<Task("init", "token", Null, Null, FALSE, {})>>
  /\ UNCHANGED <<now, provider, listeners, events, classified, fresh, completedIds,
                 drawerOpen, expandShown, undoable, tickInterval, timers, store, marked>>

\* The popup page is closed: its memory, handlers and timers are gone.
ClosePopup ==
  /\ popup = "open"
  /\ popup' = "closed"
  /\ view' = "loading"
  /\ listeners' = FALSE
  /\ events' = <<>>
  /\ classified' = EmptyClassified
  /\ fresh' = TRUE
  /\ completedIds' = {}
  /\ drawerOpen' = FALSE
  /\ expandShown' = FALSE
  /\ undoable' = {}
  /\ tickInterval' = Null
  /\ timers' = 0
  /\ tasks' = <<>>
  /\ UNCHANGED <<now, provider, store, marked>>

\* What getAuthToken rejects with (chrome.runtime.lastError.message, or 'Auth
\* failed') and what fetchTodayEvents throws (the Error's message; a network
\* failure is fetch's TypeError).
TokenErrors == {"Auth failed", "OAuth2 not granted or revoked.",
                "The user did not approve access."}
FetchErrors == {"UNAUTHORIZED", "Calendar API error", "Failed to fetch"}

\* err?.toString?.().includes('Auth'): the case-sensitive substring test on
\* the text ('OAuth2' contains it, 'UNAUTHORIZED' does not).
includesAuth(msg) == msg \in {"Auth failed", "OAuth2 not granted or revoked."}

showError_upperCase(msg) ==
  IF includesAuth(msg) \/ msg = "UNAUTHORIZED" THEN "sign-in" ELSE "general"

\* The pane the catch of DOMContentLoaded shows for err.
showError(msg) == IF includesAuth(msg) THEN "sign-in" ELSE "general"

\* An exception leaves the handler of task i: the catch of DOMContentLoaded
\* shows 'sign-in' or 'general' (v) and goes on to register the listeners, the
\* catch of the sign-in click shows 'sign-in', the undo click has no catch.
Throw(i, v) ==
  /\ tasks' = RemoveAt(tasks, i)
  /\ view' = CASE tasks[i].kind = "init"   -> v
               [] tasks[i].kind = "signin" -> "sign-in"
               [] OTHER                    -> view
  /\ listeners' = (listeners \/ tasks[i].kind = "init")
  /\ UNCHANGED <<now, provider, popup, events, classified, fresh, completedIds,
                 drawerOpen, expandShown, undoable, tickInterval, timers, store, marked>>

\* getAuthToken resolves: loadAndRender starts the first fetch.
TokenOk(i) ==
  /\ tasks[i].pc = "token"
  /\ tasks' = [tasks EXCEPT ![i].pc = "fetch1"]
  /\ UNCHANGED <<now, provider, popup, view, listeners, events, classified, fresh,
                 completedIds, drawerOpen, expandShown, undoable, tickInterval,
                 timers, store, marked>>

\* getAuthToken rejects with lastError.message or 'Auth failed'; the message
\* contains 'Auth' or not.
TokenFail(i) ==
  /\ tasks[i].pc \in {"token", "retoken"}
  /\ \E msg \in TokenErrors : Throw(i, showError(msg))

\* fetchTodayEvents resolves: events is replaced by fresh objects and
\* loadCompletedIds is issued.
FetchOk(i) ==
  /\ tasks[i].pc \in {"fetch1", "fetch2"}
  /\ events' = normalizeAll(provider)
  /\ fresh' = FALSE
  /\ tasks' = Reissue([j \in DOMAIN tasks |-> [tasks[j] EXCEPT !.live = FALSE]], i,
                      [tasks[i] EXCEPT !.pc = "ids", !.ex = store, !.live = FALSE])
  /\ UNCHANGED <<now, provider, popup, view, listeners, classified, completedIds,
                 drawerOpen, expandShown, undoable, tickInterval, timers, store, marked>>

\* The first fetch answers 401: refreshToken, then getAuthToken(false).
Fetch401(i) ==
  /\ tasks[i].pc = "fetch1"
  /\ tasks' = [tasks EXCEPT ![i].pc = "retoken"]
  /\ UNCHANGED <<now, provider, popup, view, listeners, events, classified, fresh,
                 completedIds, drawerOpen, expandShown, undoable, tickInterval,
                 timers, store, marked>>

\* The token is re-acquired: the retry is fetched.
RetokenOk(i) ==
  /\ tasks[i].pc = "retoken"
  /\ tasks' = [tasks EXCEPT ![i].pc = "fetch2"]
  /\ UNCHANGED <<now, provider, popup, view, listeners, events, classified, fresh,
                 completedIds, drawerOpen, expandShown, undoable, tickInterval,
                 timers, store, marked>>

\* A fetch of task i throws msg and loadAndRender lets it through: any error
\* of the retry, any error but 'UNAUTHORIZED' of the first fetch.
FetchThrow(i, msg) ==
  /\ tasks[i].pc \in {"fetch1", "fetch2"}
  /\ msg = "UNAUTHORIZED" => tasks[i].pc = "fetch2"
  /\ Throw(i, showError(msg))

FetchFail(i) == \E msg \in FetchErrors : FetchThrow(i, msg)

clearInterval_keeps(handle, running) == running

\* if (tickInterval) clearInterval(tickInterval): the timers left running.
clearInterval(handle, running) == IF handle # Null THEN running - 1 ELSE running

\* loadAndRender after `completedIds = await loadCompletedIds()`.
LoadFinish(i) ==
  /\ tasks[i].kind \in Loaders
  /\ tasks[i].pc = "ids"
  /\ StorageTurn(i)
  /\ completedIds' = tasks[i].ex
  /\ events' = applyCompletedIds(events, completedIds', now)
  /\ view' = "main"
  /\ Rendered(events', completedIds', drawerOpen)
  /\ timers' = clearInterval(tickInterval, timers) + 1
  /\ tickInterval' = 1
  /\ listeners' = (listeners \/ tasks[i].kind = "init")
  /\ tasks' = RemoveAt(tasks, i)
  /\ UNCHANGED <<now, provider, popup, drawerOpen, store, marked>>

\* An interval timer fires: its callback issues loadCompletedIds.  The 30 s
\* period is far longer than a storage read, so the previous callback of the
\* timer has finished.
TickStart ==
  /\ popup = "open"
  /\ timers >= 1
  /\ Room
  /\ \A j \in DOMAIN tasks : tasks[j].kind # "tick"
  /\ tasks' = Append(tasks, Task("tick", "ids", Null, Null, FALSE, store))
  /\ UNCHANGED <<now, provider, popup, view, listeners, events, classified, fresh,
                 completedIds, drawerOpen, expandShown, undoable, tickInterval,
                 timers, store, marked>>

\* The interval callback resumes: applyCompletedIds(); render().
TickFinish(i) ==
  /\ tasks[i].kind = "tick"
  /\ tasks[i].pc = "ids"
  /\ StorageTurn(i)
  /\ completedIds' = tasks[i].ex
  /\ events' = applyCompletedIds(events, completedIds', now)
  /\ Rendered(events', completedIds', drawerOpen)
  /\ tasks' = RemoveAt(tasks, i)
  /\ UNCHANGED <<now, provider, popup, view, listeners, drawerOpen, tickInterval,
                 timers, store, marked>>

\* popup.js toggleDrawer (a click on the displayed expandBtn).
toggleDrawer ==
  /\ popup = "open"
  /\ listeners
  /\ view = "main"
  /\ expandShown
  /\ drawerOpen' = ~drawerOpen
  /\ Rendered(events, completedIds, drawerOpen')
  /\ UNCHANGED <<now, provider, popup, view, listeners, events, completedIds,
                 tickInterval, timers, store, tasks, marked>>

\* popup.js onMarkComplete up to `await saveCompletedId(event.id)`, whose
\* loadCompletedIds is issued (a click on completeBtn or on the current row).
onMarkComplete ==
  /\ popup = "open"
  /\ listeners
  /\ view = "main"
  /\ classified.current # Null
  /\ Room
  /\ tasks' = Append(tasks, Task("mark", "svRead", events[classified.current].id,
                                 classified.current, fresh, store))
  /\ UNCHANGED <<now, provider, popup, view, listeners, events, classified, fresh,
                 completedIds, drawerOpen, expandShown, undoable, tickInterval,
                 timers, store, marked>>

\* popup.js saveCompletedId: the array written for the set read.
saveCompletedId(existing, eventId) == existing \cup {eventId}

\* popup.js removeCompletedId: the array written for the set read.
removeCompletedId(existing, eventId) == existing \ {eventId}

\* saveCompletedId resumes with the set read and issues the write.
SaveWrite(i) ==
  /\ tasks[i].pc = "svRead"
  /\ StorageTurn(i)
  /\ store' = saveCompletedId(tasks[i].ex, tasks[i].id)
  /\ tasks' = Reissue(tasks, i, [tasks[i] EXCEPT !.pc = "svWrite", !.ex = {}])
  /\ UNCHANGED <<now, provider, popup, view, listeners, events, classified, fresh,
                 completedIds, drawerOpen, expandShown, undoable, tickInterval,
                 timers, marked>>

\* onMarkComplete resumes after the save: completedIds.add, event.end = new
\* Date(), render().
MarkFinish(i) ==
  /\ tasks[i].pc = "svWrite"
  /\ StorageTurn(i)
  /\ completedIds' = completedIds \cup {tasks[i].id}
  /\ events' = IF tasks[i].live
                 THEN [events EXCEPT ![tasks[i].idx].mc = TRUE, ![tasks[i].idx].end = now]
                 ELSE events
  /\ Rendered(events', completedIds', drawerOpen)
  /\ marked' = marked \cup {tasks[i].id}
  /\ tasks' = RemoveAt(tasks, i)
  /\ UNCHANGED <<now, provider, popup, view, listeners, drawerOpen, tickInterval,
                 timers, store>>

\* The undo handler of a drawer row up to `await removeCompletedId(event.id)`.
UndoClick(id) ==
  /\ popup = "open"
  /\ view = "main"
  /\ drawerOpen
  /\ id \in undoable
  /\ Room
  /\ tasks' = Append(tasks, Task("undo", "rmRead", id, Null, FALSE, store))
  /\ marked' = marked \ {id}
  /\ UNCHANGED <<now, provider, popup, view, listeners, events, classified, fresh,
                 completedIds, drawerOpen, expandShown, undoable, tickInterval,
                 timers, store>>

\* removeCompletedId resumes with the set read and issues the write.
RemoveWrite(i) ==
  /\ tasks[i].pc = "rmRead"
  /\ StorageTurn(i)
  /\ store' = removeCompletedId(tasks[i].ex, tasks[i].id)
  /\ tasks' = Reissue(tasks, i, [tasks[i] EXCEPT !.pc = "rmWrite", !.ex = {}])
  /\ UNCHANGED <<now, provider, popup, view, listeners, events, classified, fresh,
                 completedIds, drawerOpen, expandShown, undoable, tickInterval,
                 timers, marked>>

\* The undo handler resumes after the removal and issues loadCompletedIds.
UndoReload(i) ==
  /\ tasks[i].pc = "rmWrite"
  /\ StorageTurn(i)
  /\ tasks' = Reissue(tasks, i, [tasks[i] EXCEPT !.pc = "reloadIds", !.ex = store])
  /\ UNCHANGED <<now, provider, popup, view, listeners, events, classified, fresh,
                 completedIds, drawerOpen, expandShown, undoable, tickInterval,
                 timers, store, marked>>

\* The undo handler resumes with the ids and asks getAuthToken(false).
UndoToken(i) ==
  /\ tasks[i].pc = "reloadIds"
  /\ StorageTurn(i)
  /\ completedIds' = tasks[i].ex
  /\ tasks' = [tasks EXCEPT ![i].pc = "token", ![i].ex = {}]
  /\ UNCHANGED <<now, provider, popup, view, listeners, events, classified, fresh,
                 drawerOpen, expandShown, undoable, tickInterval, timers, store, marked>>

\* A click on signInBtn (displayed in the sign-in error pane).
SignInClick ==
  /\ popup = "open"
  /\ listeners
  /\ view = "sign-in"
  /\ Room
  /\ view' = "loading"
  /\ tasks' = Append(tasks, Task("signin", "token", Null, Null, FALSE, {}))
  /\ UNCHANGED <<now, provider, popup, listeners, events, classified, fresh,
                 completedIds, drawerOpen, expandShown, undoable, tickInterval,
                 timers, store, marked>>

\* Time passes.
Advance ==
  /\ now < MaxTime
  /\ now' = now + 1
  /\ UNCHANGED <<provider, popup, view, listeners, events, classified, fresh,
                 completedIds, drawerOpen, expandShown, undoable, tickInterval,
                 timers, store, tasks, marked>>

\* ------------------------------------------ the persisted completion record

\* No value under the day's key.
Absent == <<Null>>
StoreIds == 1..(MaxEvents + 1)

Elems(q) == {q[k] : k \in DOMAIN q}

\* new Set(array): the distinct elements in order of first occurrence.
RECURSIVE SetOf(_)
SetOf(arr) ==
  IF arr = <<>> THEN <<>>
  ELSE LET init == SetOf(SubSeq(arr, 1, Len(arr) - 1))
           x    == arr[Len(arr)]
       IN  IF x \in Elems(init) THEN init ELSE Append(init, x)

\* Set.prototype.add / delete on an insertion-ordered Set.
SetAdd(s, x) == IF x \in Elems(s) THEN s ELSE Append(s, x)
SetDelete(s, x) == SelectSeq(s, LAMBDA y : y # x)

\* popup.js loadCompletedIds: new Set(result[key] || [])
loadCompletedIds(rec) == SetOf(IF rec = Absent THEN <<>> ELSE rec)

saveRecord_toggles(rec, eventId) ==
  IF eventId \in Elems(loadCompletedIds(rec))
    THEN SetDelete(loadCompletedIds(rec), eventId)
    ELSE SetAdd(loadCompletedIds(rec), eventId)

\* popup.js saveCompletedId run to completion: the array [...existing] it sets.
saveRecord(rec, eventId) == SetAdd(loadCompletedIds(rec), eventId)

\* popup.js removeCompletedId run to completion: the array it sets.
removeRecord(rec, eventId) == SetDelete(loadCompletedIds(rec), eventId)

NoOp == [op |-> "none", id |-> Null, before |-> Absent]

RecordInit ==
  /\ record = Absent
  /\ loaded = <<>>
  /\ lastOp = NoOp

RecordSave(id) ==
  /\ record' = saveRecord(record, id)
  /\ lastOp' = [op |-> "save", id |-> id, before |-> record]
  /\ UNCHANGED loaded

RecordRemove(id) ==
  /\ record' = removeRecord(record, id)
  /\ lastOp' = [op |-> "remove", id |-> id, before |-> record]
  /\ UNCHANGED loaded

RecordLoad ==
  /\ loaded' = loadCompletedIds(record)
  /\ lastOp' = [op |-> "load", id |-> Null, before |-> record]
  /\ UNCHANGED record

\* ---------------------------------------------------- the background context

\* In this context instants are milliseconds; the clock moves in half minutes.
\* Events are spaced so that the 5-minute countdown of one begins after the
\* start of the one before.
Slot == Minute \div 2
Grain == NotifyAt + 1
DayEnd == MaxMark * Grain * Minute
Marks == {k * Grain * Minute : k \in 0..MaxMark}

\* An item: a timed event of Grain minutes, an item whose end has no dateTime,
\* or an all-day event.
BgShapes == {<<m, m + Grain * Minute>> : m \in Marks} \cup {<<m, NoDT>> : m \in Marks}
              \cup {<<NoDT, NoDT>>}
BgRawLists ==
  UNION { { [i \in 1..n |-> [id |-> i, summary |-> <<"Standup">>,
                             startDT |-> f[i][1], endDT |-> f[i][2]]] :
              f \in {g \in [1..n -> BgShapes] : SortedByStart(g)} } :
          n \in 0..MaxBgEvents }

\* Math.round(ms / 60000): the nearest integer, a half goes up.
RoundMinutes(ms) == (2 * ms + Minute) \div (2 * Minute)

\* popup.js minutesUntil / minutesLeft
minutesUntil(date, n) == IF RoundMinutes(date - n) > 0 THEN RoundMinutes(date - n) ELSE 0
minutesLeft(event, n) == IF RoundMinutes(event.end - n) > 0 THEN RoundMinutes(event.end - n) ELSE 0

fetchEvents_keeps(ok, items) == SelectSeq(items, LAMBDA e : e.startDT # NoDT)

\* background.js fetchEvents: [] when the response is not ok, else the items
\* that have a start.dateTime.
fetchEvents(ok, items) ==
  IF ~ok THEN <<>> ELSE SelectSeq(items, LAMBDA e : e.startDT # NoDT)

\* The badge text: '' or n + 'm'.
NoBadge == <<>>
Shown(n) == <<n>>

\* background.js updateBadge, lines 25-26: new Date(undefined) is an Invalid
\* Date, and every comparison with it is false.
bgCurrent(evs, n) ==
  LET hit == SelectSeq(Indexes(evs), LAMBDA i : evs[i].startDT <= n
                                               /\ evs[i].endDT # NoDT /\ evs[i].endDT > n)
  IN  IF hit = <<>> THEN Null ELSE hit[1]
bgNext(evs, n) ==
  LET hit == SelectSeq(Indexes(evs), LAMBDA i : evs[i].startDT > n)
  IN  IF hit = <<>> THEN Null ELSE hit[1]

updateBadge_noHorizon(evs, n) ==
  LET current == bgCurrent(evs, n)
      next    == bgNext(evs, n)
  IN  IF current # Null
        THEN [text |-> Shown(RoundMinutes(evs[current].endDT - n)), notify |-> Null]
      ELSE IF next # Null
        THEN LET minsUntil == RoundMinutes(evs[next].startDT - n)
             IN  [text |-> Shown(minsUntil),
                  notify |-> IF minsUntil = NotifyAt THEN evs[next].id ELSE Null]
      ELSE [text |-> NoBadge, notify |-> Null]

updateBadge_skipsCompleted(evs, n) ==
  LET live    == SelectSeq(evs, LAMBDA e : e.id \notin store)
      current == bgCurrent(live, n)
      next    == bgNext(live, n)
  IN  IF current # Null
        THEN [text |-> Shown(RoundMinutes(live[current].endDT - n)), notify |-> Null]
      ELSE IF next # Null
        THEN LET minsUntil == RoundMinutes(live[next].startDT - n)
             IN  IF minsUntil <= BadgeHorizon
                   THEN [text |-> Shown(minsUntil),
                         notify |-> IF minsUntil = NotifyAt THEN live[next].id ELSE Null]
                   ELSE [text |-> NoBadge, notify |-> Null]
      ELSE [text |-> NoBadge, notify |-> Null]

\* background.js updateBadge after `await fetchEvents(token)`: the badge text
\* it sets and the event it notifies about (Null: none).
updateBadge(evs, n) ==
  LET current == bgCurrent(evs, n)
      next    == bgNext(evs, n)
  IN  IF current # Null
        THEN [text |-> Shown(RoundMinutes(evs[current].endDT - n)), notify |-> Null]
      ELSE IF next # Null
        THEN LET minsUntil == RoundMinutes(evs[next].startDT - n)
             IN  IF minsUntil <= BadgeHorizon
                   THEN [text |-> Shown(minsUntil),
                         notify |-> IF minsUntil = NotifyAt THEN evs[next].id ELSE Null]
                   ELSE [text |-> NoBadge, notify |-> Null]
      ELSE [text |-> NoBadge, notify |-> Null]

BgIds == 1..MaxBgEvents

\* What a failed evaluation is remembered as: whether it found a badge text.
Failed(text) == IF text # NoBadge THEN "cleared" ELSE "failed"

BgInit ==
  /\ bpc = "idle"
  /\ badge = NoBadge
  /\ notes = [id \in BgIds |-> 0]
  /\ blast = "none"

popupVars == <<events, classified, fresh, completedIds, restVars>>

\* The alarm 'tick' fires: updateBadge runs up to `await getTokenSilent()`.
BgAlarm ==
  /\ bpc = "idle"
  /\ \A id \in BgIds : notes[id] < MaxNotes
  /\ bpc' = "token"
  /\ UNCHANGED <<now, provider, badge, notes, blast>>

\* The browser starts: onStartup runs updateBadge.
BgStartup ==
  /\ bpc = "idle"
  /\ \A id \in BgIds : notes[id] < MaxNotes
  /\ bpc' = "token"
  /\ UNCHANGED <<now, provider, badge, notes, blast>>

\* getTokenSilent resolves null: the badge is cleared.
BgNoToken ==
  /\ bpc = "token"
  /\ badge' = NoBadge
  /\ blast' = Failed(badge)
  /\ bpc' = "idle"
  /\ UNCHANGED <<now, provider, notes>>

\* getTokenSilent resolves a token: fetchEvents is awaited.
BgTokenOk ==
  /\ bpc = "token"
  /\ bpc' = "fetch"
  /\ UNCHANGED <<now, provider, badge, notes, blast>>

\* fetchEvents resolved with evs: lines 23-46 of updateBadge.
BgEvaluate(evs) ==
  LET r == updateBadge(evs, now)
  IN  /\ badge' = r.text
      /\ notes' = IF r.notify # Null THEN [notes EXCEPT ![r.notify] = @ + 1] ELSE notes

\* The response is ok.
BgFetchOk ==
  /\ bpc = "fetch"
  /\ BgEvaluate(fetchEvents(TRUE, provider))
  /\ blast' = "ok"
  /\ bpc' = "idle"
  /\ UNCHANGED <<now, provider>>

\* The response is not ok (any non-2xx status).
BgFetchNotOk ==
  /\ bpc = "fetch"
  /\ BgEvaluate(fetchEvents(FALSE, provider))
  /\ blast' = Failed(badge)
  /\ bpc' = "idle"
  /\ UNCHANGED <<now, provider>>

\* fetch or res.json() throws: the catch clears the badge.
BgFetchThrows ==
  /\ bpc = "fetch"
  /\ badge' = NoBadge
  /\ blast' = Failed(badge)
  /\ bpc' = "idle"
  /\ UNCHANGED <<now, provider, notes>>

\* Half a minute passes.
BgAdvance ==
  /\ now < DayEnd
  /\ now' = now + Slot
  /\ UNCHANGED <<provider, bpc, badge, notes, blast>>

\* An alarm tick whose token and fetch succeed, the whole evaluation at once.
SteadyTick ==
  /\ bpc = "idle"
  /\ BgEvaluate(fetchEvents(TRUE, provider))
  /\ blast' = "ok"
  /\ bpc' = "wait"
  /\ UNCHANGED <<now, provider>>

\* periodInMinutes: 1 -- the next alarm is one minute later.
MinutePasses ==
  /\ bpc = "wait"
  /\ now + Minute <= DayEnd
  /\ now' = now + Minute
  /\ bpc' = "idle"
  /\ UNCHANGED <<provider, badge, notes, blast>>

\* ---------------------------------------------------------- specifications

SessInit ==
  /\ now = 0
  /\ provider \in RawLists
  /\ popup = "closed"
  /\ view = "loading"
  /\ listeners = FALSE
  /\ events = <<>>
  /\ classified = EmptyClassified
  /\ fresh = TRUE
  /\ completedIds = {}
  /\ drawerOpen = FALSE
  /\ expandShown = FALSE
  /\ undoable = {}
  /\ tickInterval = Null
  /\ timers = 0
  /\ store = {}
  /\ tasks = <<>>
  /\ marked = {}

StreakInit ==
  /\ day = 0
  /\ streakStore = NoRecord
  /\ spc = "closed"
  /\ sloc = NoLocals
  /\ pill = Null
  /\ prev = NoPrev

\* The streak over several days and sessions.
InitStreak == StreakInit /\ SessInit /\ provider = <<>> /\ RecordInit /\ BgInit
NextStreak ==
  \/ StreakOpen /\ UNCHANGED <<sessVars, recordVars, bgVars>>
  \/ getStreak /\ UNCHANGED <<sessVars, recordVars, bgVars>>
  \/ StreakUpdate /\ UNCHANGED <<sessVars, recordVars, bgVars>>
  \/ StreakClose /\ UNCHANGED <<sessVars, recordVars, bgVars>>
  \/ NextDay /\ UNCHANGED <<sessVars, recordVars, bgVars>>
SpecStreak == InitStreak /\ [][NextStreak]_vars

\* The reconciliation pipeline on every fetched list, id set and instant.
InitPipeline ==
  /\ StreakInit
  /\ RecordInit
  /\ BgInit
  /\ now \in Time
  /\ provider \in RawLists
  /\ popup = "open"
  /\ view = "main"
  /\ listeners = TRUE
  /\ events = normalizeAll(provider)
  /\ classified = EmptyClassified
  /\ fresh = TRUE
  /\ completedIds = {}
  /\ drawerOpen = FALSE
  /\ expandShown = FALSE
  /\ undoable = {}
  /\ tickInterval = Null
  /\ timers = 0
  /\ store = {}
  /\ tasks = <<>>
  /\ marked = {}
NextPipeline ==
  \/ Reconcile /\ UNCHANGED <<restVars, streakVars, recordVars, bgVars>>
  \/ ClockTick /\ UNCHANGED <<restVars, streakVars, recordVars, bgVars>>
SpecPipeline == InitPipeline /\ [][NextPipeline]_vars

\* The persisted record under save, remove and load, each run to completion.
InitRecord == SessInit /\ provider = <<>> /\ StreakInit /\ RecordInit /\ BgInit
NextRecord ==
  \/ \E id \in StoreIds : RecordSave(id) /\ UNCHANGED <<sessVars, streakVars, bgVars>>
  \/ \E id \in StoreIds : RecordRemove(id) /\ UNCHANGED <<sessVars, streakVars, bgVars>>
  \/ RecordLoad /\ UNCHANGED <<sessVars, streakVars, bgVars>>
SpecRecord == InitRecord /\ [][NextRecord]_vars

\* The popup closed all along.
PopupInit ==
  /\ popup = "closed"
  /\ view = "loading"
  /\ listeners = FALSE
  /\ events = <<>>
  /\ classified = EmptyClassified
  /\ fresh = TRUE
  /\ completedIds = {}
  /\ drawerOpen = FALSE
  /\ expandShown = FALSE
  /\ undoable = {}
  /\ tickInterval = Null
  /\ timers = 0
  /\ store = {}
  /\ tasks = <<>>
  /\ marked = {}

\* Normalisation of every answer of the API, well-formed or not.
InitNormalize ==
  /\ StreakInit /\ RecordInit /\ BgInit /\ PopupInit
  /\ now = 0
  /\ provider \in AnyItems
NextNormalize ==
  \/ Normalize /\ UNCHANGED <<restVars, streakVars, recordVars, bgVars>>
SpecNormalize == InitNormalize /\ [][NextNormalize]_vars

\* The background context: evaluations at any half minute, any outcome.
InitBadge ==
  /\ now = 0
  /\ provider \in BgRawLists
  /\ PopupInit /\ StreakInit /\ RecordInit /\ BgInit
NextBadge ==
  \/ BgAlarm /\ UNCHANGED <<popupVars, streakVars, recordVars>>
  \/ BgStartup /\ UNCHANGED <<popupVars, streakVars, recordVars>>
  \/ BgNoToken /\ UNCHANGED <<popupVars, streakVars, recordVars>>
  \/ BgTokenOk /\ UNCHANGED <<popupVars, streakVars, recordVars>>
  \/ BgFetchOk /\ UNCHANGED <<popupVars, streakVars, recordVars>>
  \/ BgFetchNotOk /\ UNCHANGED <<popupVars, streakVars, recordVars>>
  \/ BgFetchThrows /\ UNCHANGED <<popupVars, streakVars, recordVars>>
  \/ BgAdvance /\ UNCHANGED <<popupVars, streakVars, recordVars>>
SpecBadge == InitBadge /\ [][NextBadge]_vars

\* The background context with an alarm exactly every minute, every
\* evaluation successful.
InitSteady ==
  /\ now \in {0, Slot}
  /\ provider \in BgRawLists
  /\ PopupInit /\ StreakInit /\ RecordInit /\ BgInit
NextSteady ==
  \/ SteadyTick /\ UNCHANGED <<popupVars, streakVars, recordVars>>
  \/ MinutePasses /\ UNCHANGED <<popupVars, streakVars, recordVars>>
SpecSteady == InitSteady /\ [][NextSteady]_vars

\* The background context next to whatever the popup has left in
\* chrome.storage.local: any set of completed ids, with or without a streak.
StoredStreaks == {NoRecord, [streak |-> 1, streakLastDate |-> 0]}
InitStored ==
  /\ now = 0
  /\ provider \in BgRawLists
  /\ store \in SUBSET BgIds
  /\ streakStore \in StoredStreaks
  /\ day = 0 /\ spc = "closed" /\ sloc = NoLocals /\ pill = Null /\ prev = NoPrev
  /\ popup = "closed" /\ view = "loading" /\ listeners = FALSE
  /\ events = <<>> /\ classified = EmptyClassified /\ fresh = TRUE
  /\ completedIds = {} /\ drawerOpen = FALSE /\ expandShown = FALSE
  /\ undoable = {} /\ tickInterval = Null /\ timers = 0
  /\ tasks = <<>> /\ marked = {}
  /\ RecordInit /\ BgInit
NextStored ==
  \/ SteadyTick /\ UNCHANGED <<popupVars, streakVars, recordVars>>
  \/ MinutePasses /\ UNCHANGED <<popupVars, streakVars, recordVars>>
SpecStored == InitStored /\ [][NextStored]_vars

\* The interactive context over one calendar day.
Init == SessInit /\ StreakInit /\ RecordInit /\ BgInit
Next ==
  \/ OpenPopup /\ UNCHANGED <<streakVars, recordVars, bgVars>>
  \/ ClosePopup /\ UNCHANGED <<streakVars, recordVars, bgVars>>
  \/ \E i \in DOMAIN tasks : TokenOk(i) /\ UNCHANGED <<streakVars, recordVars, bgVars>>
  \/ \E i \in DOMAIN tasks : TokenFail(i) /\ UNCHANGED <<streakVars, recordVars, bgVars>>
  \/ \E i \in DOMAIN tasks : FetchOk(i) /\ UNCHANGED <<streakVars, recordVars, bgVars>>
  \/ \E i \in DOMAIN tasks : Fetch401(i) /\ UNCHANGED <<streakVars, recordVars, bgVars>>
  \/ \E i \in DOMAIN tasks : RetokenOk(i) /\ UNCHANGED <<streakVars, recordVars, bgVars>>
  \/ \E i \in DOMAIN tasks : FetchFail(i) /\ UNCHANGED <<streakVars, recordVars, bgVars>>
  \/ \E i \in DOMAIN tasks : LoadFinish(i) /\ UNCHANGED <<streakVars, recordVars, bgVars>>
  \/ TickStart /\ UNCHANGED <<streakVars, recordVars, bgVars>>
  \/ \E i \in DOMAIN tasks : TickFinish(i) /\ UNCHANGED <<streakVars, recordVars, bgVars>>
  \/ toggleDrawer /\ UNCHANGED <<streakVars, recordVars, bgVars>>
  \/ onMarkComplete /\ UNCHANGED <<streakVars, recordVars, bgVars>>
  \/ \E i \in DOMAIN tasks : SaveWrite(i) /\ UNCHANGED <<streakVars, recordVars, bgVars>>
  \/ \E i \in DOMAIN tasks : MarkFinish(i) /\ UNCHANGED <<streakVars, recordVars, bgVars>>
  \/ \E id \in EventIds : UndoClick(id) /\ UNCHANGED <<streakVars, recordVars, bgVars>>
  \/ \E i \in DOMAIN tasks : RemoveWrite(i) /\ UNCHANGED <<streakVars, recordVars, bgVars>>
  \/ \E i \in DOMAIN tasks : UndoReload(i) /\ UNCHANGED <<streakVars, recordVars, bgVars>>
  \/ \E i \in DOMAIN tasks : UndoToken(i) /\ UNCHANGED <<streakVars, recordVars, bgVars>>
  \/ SignInClick /\ UNCHANGED <<streakVars, recordVars, bgVars>>
  \/ Advance /\ UNCHANGED <<streakVars, recordVars, bgVars>>
Spec == Init /\ [][Next]_vars

\* The interactive context on a day with at most one calendar item.
InitLoads == Init /\ DOMAIN provider \subseteq {1}
SpecLoads == InitLoads /\ [][Next]_vars

\* ------------------------------------------------------------- properties

InSeq(x, q) == \E k \in DOMAIN q : q[k] = x
\* In how many of the four buckets the object at index i appears.
Buckets(c, i) ==
    (IF c.current = i THEN 1 ELSE 0) + (IF c.next = i THEN 1 ELSE 0)
  + (IF InSeq(i, c.upcoming) THEN 1 ELSE 0) + (IF InSeq(i, c.past) THEN 1 ELSE 0)

\* C1: classifyEvents puts every event of a start-sorted list into exactly one
\* of current / next / upcoming / past, and current is set iff some event has
\* start <= now < end.
C1_ClassifyPartitions ==
  LET c == classifyEvents(events, now)
  IN  /\ \A i \in DOMAIN events : Buckets(c, i) = 1
      /\ (c.current # Null) <=> (\E i \in DOMAIN events :
                                    events[i].start <= now /\ events[i].end > now)

\* C3: after applyCompletedIds every event's end is at most the end it had
\* before the call.
C3_ClampNeverLater ==
  \A ids \in SUBSET EventIds :
    LET after == applyCompletedIds(events, ids, now)
    IN  \A i \in DOMAIN events : after[i].end <= events[i].end
C3_Witness ==
  \E i \in DOMAIN events :
    /\ events[i].mc
    /\ events[i].end = now
    /\ \E k \in DOMAIN provider : provider[k].id = events[i].id /\ provider[k].endDT > now

\* C4: applying applyCompletedIds twice with the same events, id set and now
\* gives the same ends and flags as applying it once.
C4_ApplyIdempotent ==
  \A ids \in SUBSET EventIds :
    LET once == applyCompletedIds(events, ids, now)
    IN  applyCompletedIds(once, ids, now) = once
C4_Witness ==
  /\ \E i \in DOMAIN events : events[i].mc /\ events[i].end = now /\ events[i].id \in completedIds
  /\ \E i \in DOMAIN events : events[i].id \in completedIds /\ events[i].end < now

\* C5: sessions on consecutive days: the count returned on the second day is
\* the count returned on the first day plus 1.
C5_ConsecutiveDaysIncrement ==
  (spc = "done" /\ prev # NoPrev /\ sloc.today = prev.day + 1) => pill = prev.count + 1

\* C6: when updateStreak has returned c on day d the persisted record is (c, d).
C6_PersistedBeforeReturn ==
  spc = "done" => streakStore = [streak |-> pill, streakLastDate |-> sloc.today]

\* C7: a further call on the same day returns the same count and writes nothing.
C7_SameDaySameCount ==
  (spc = "done" /\ prev # NoPrev /\ prev.day = sloc.today) =>
     (pill = prev.count /\ ~sloc.wrote)
C7_Witness ==
  /\ spc = "done" /\ prev # NoPrev /\ prev.day = sloc.today
  /\ streakStore # NoRecord /\ pill >= 2

\* C8: a call that finds a persisted last-updated day other than today and
\* yesterday returns and persists 1; a persisted count is always at least 1.
C8_GapResetsToOne ==
  /\ (spc = "done" /\ sloc.had /\ sloc.lastDate # sloc.today /\ sloc.lastDate # sloc.today - 1)
        => (pill = 1 /\ streakStore = [streak |-> 1, streakLastDate |-> sloc.today])
  /\ streakStore # NoRecord => streakStore.streak >= 1
C8_Witness ==
  /\ spc = "done" /\ sloc.had /\ sloc.lastDate < sloc.today - 1
  /\ sloc.streak >= 2

\* C2: between two fetches no mutation of an in-memory event raises its end:
\* each leaves end at most its previous value and at most the fetched value.
C2_EndNeverIncreases ==
  [][(fresh' /\ DOMAIN events' = DOMAIN events) =>
        \A k \in DOMAIN events :
           /\ events'[k].end <= events[k].end
           /\ events'[k].end <= normalizeAll(provider)[k].end]_vars

\* C9: once the user has marked E complete, and until E is undone, every
\* rendered classification has E in past and not as current; a current event
\* has started.
C9_MarkedStaysPast ==
  (popup = "open" /\ view = "main") =>
     /\ \A k \in DOMAIN events :
          events[k].id \in marked =>
             (classified.current # k /\ InSeq(k, classified.past))
     /\ classified.current # Null => events[classified.current].start <= now

\* C10: an id enters the persisted set only by a mark-complete of that id and
\* leaves it only by an undo of that id, in every interleaving.
C10_OnlyExplicitChanges ==
  [][\A id \in EventIds :
        /\ (id \in store' /\ id \notin store) =>
              \E i \in DOMAIN tasks : tasks[i].id = id /\ SaveWrite(i)
        /\ (id \in store /\ id \notin store') =>
              \E i \in DOMAIN tasks : tasks[i].id = id /\ RemoveWrite(i)]_vars

\* C11: saving an id that is already in the persisted set leaves the set as it
\* was, removing an id that is not in it leaves the set as it was, and
\* loadCompletedIds gives the empty set when no record exists.
C11_StoreIdempotent ==
  LET was == Elems(loadCompletedIds(lastOp.before))
      is  == Elems(loadCompletedIds(record))
  IN  /\ (lastOp.op = "save" /\ lastOp.id \in was) => is = was
      /\ (lastOp.op = "remove" /\ lastOp.id \notin was) => is = was
      /\ (lastOp.op = "load" /\ lastOp.before = Absent) => loaded = <<>>
C11_Witness ==
  /\ lastOp.op = "save"
  /\ lastOp.id \in Elems(loadCompletedIds(lastOp.before))
  /\ Len(record) >= 2

\* C12: over any sequence of background evaluations the notification for an
\* event is issued at most once.
C12_NotifiedAtMostOnce == \A id \in BgIds : notes[id] <= 1

\* C13: with an alarm every minute and every token and fetch successful, a
\* timed event that starts later today has been notified about by the time it
\* starts.
C13_NotifiedBeforeStart ==
  \A k \in DOMAIN provider :
    (/\ provider[k].startDT # NoDT /\ provider[k].endDT # NoDT
     /\ provider[k].startDT >= (NotifyAt + 1) * Minute
     /\ now >= provider[k].startDT)
      => notes[provider[k].id] >= 1

\* C14: a successful evaluation sets the badge to the minutes left in the
\* current event, else to the minutes until the next event when they are at
\* most 15, else to ''; the number is never negative.
C14_BadgeText ==
  [][BgFetchOk =>
       LET evs     == fetchEvents(TRUE, provider)
           current == bgCurrent(evs, now)
           next    == bgNext(evs, now)
       IN  /\ badge' =
                IF current # Null
                  THEN Shown(minutesLeft([end |-> evs[current].endDT], now))
                ELSE IF next # Null /\ minutesUntil(evs[next].startDT, now) <= 15
                  THEN Shown(minutesUntil(evs[next].startDT, now))
                ELSE NoBadge
           /\ badge' # NoBadge => badge'[1] >= 0]_vars
C14_Witness ==
  /\ bpc = "idle" /\ blast = "ok"
  /\ badge = Shown(15)
  /\ \E k \in DOMAIN provider : provider[k].startDT - now > 14 * Minute

\* C15: with an empty override store the background context and the popup
\* select the same current event and the same next event, by id.
C15_SameSelection ==
  LET evs  == fetchEvents(TRUE, provider)
      norm == normalizeAll(provider)
      c    == classifyEvents(norm, now)
      bc   == bgCurrent(evs, now)
      bn   == bgNext(evs, now)
  IN  /\ (IF bc = Null THEN Null ELSE evs[bc].id)
            = (IF c.current = Null THEN Null ELSE norm[c.current].id)
      /\ (IF bn = Null THEN Null ELSE evs[bn].id)
            = (IF c.next = Null THEN Null ELSE norm[c.next].id)

\* C18: an evaluation that fails (no silent token, a response that is not ok,
\* a thrown error) ends with the badge text '' and issues no notification.
C18_FailureClearsBadge ==
  [][(BgNoToken \/ BgFetchNotOk \/ BgFetchThrows) =>
        (badge' = NoBadge /\ notes' = notes)]_vars
C18_Witness ==
  /\ bpc = "idle"
  /\ blast = "cleared"
  /\ badge = NoBadge

\* C16: when the retry after a 401 fails with 401 again, the sign-in error
\* pane is shown.
C16_Retry401ShowsSignIn ==
  [][\A i \in DOMAIN tasks :
        (tasks[i].pc = "fetch2" /\ FetchThrow(i, "UNAUTHORIZED")) => view' = "sign-in"]_vars

Count(q, pc) == Cardinality({k \in DOMAIN q : q[k].pc = pc})

\* C17: a second fetch is started only by the re-acquired token after the
\* first fetch answered 401, no fetch follows the second, and a failure with
\* another status is not retried and shows the general failure pane.
C17_OneRetryOnlyAfter401 ==
  [][/\ Count(tasks', "fetch2") > Count(tasks, "fetch2") =>
           \E i \in DOMAIN tasks : RetokenOk(i)
     /\ Count(tasks', "retoken") > Count(tasks, "retoken") =>
           \E i \in DOMAIN tasks : Fetch401(i)
     /\ \A i \in DOMAIN tasks :
           FetchThrow(i, "Calendar API error") =>
              (view' = "general" /\ Len(tasks') < Len(tasks))]_vars

\* C19: at most one tick timer runs at any time, and a running timer's handle
\* is the stored one.
C19_OneTimer ==
  /\ timers <= 1
  /\ timers = 1 => tickInterval # Null
C19_Witness ==
  /\ timers = 1
  /\ tickInterval # Null
  /\ Cardinality({i \in DOMAIN tasks : tasks[i].kind = "undo" /\ tasks[i].pc = "ids"}) = 2

\* C20: every in-memory event has start < end.
C20_StartBeforeEnd == \A i \in DOMAIN events : events[i].start < events[i].end

\* C21: normalizeEvent returns null for every raw item whose start or end
\* dateTime is missing or invalid, and no such item reaches the event list;
\* every other item is in the list with its summary as title, or the
\* placeholder when it has no summary.
C21_SkipsMissingOrInvalid ==
  ~fresh =>
    \A k \in DOMAIN provider :
      IF provider[k].startDT \in {NoDT, BadDT} \/ provider[k].endDT \in {NoDT, BadDT}
        THEN /\ normalizeEvent(provider[k]) = NullEvent
             /\ \A j \in DOMAIN events : events[j].id # provider[k].id
        ELSE \E j \in DOMAIN events :
               /\ events[j].id = provider[k].id
               /\ events[j].start = provider[k].startDT
               /\ events[j].end = provider[k].endDT
               /\ events[j].title =
                    (IF provider[k].summary \in {NoSummary, <<"">>}
                       THEN "(no title)" ELSE provider[k].summary[1])

\* The value of a number that is neither NaN nor infinite.
IsValue(p, k) == p.den > 0 /\ p.num = k * p.den

\* C22: for every event with start < end and every now, eventProgress is in
\* [0, 100], is 0 when now < start and is 100 when now >= end.
C22_ProgressInRange ==
  \A i \in DOMAIN events :
    events[i].start < events[i].end =>
      LET p == eventProgress(events[i], now)
      IN  /\ p.den > 0 /\ 0 <= p.num /\ p.num <= 100 * p.den
          /\ now < events[i].start => IsValue(p, 0)
          /\ now >= events[i].end => IsValue(p, 100)

\* The quest card shows an event strictly inside its interval, next to an
\* event that is over.
C22_Witness ==
  /\ classified.current # Null
  /\ events[classified.current].start < now
  /\ now < events[classified.current].end
  /\ \E i \in DOMAIN events : events[i].start < events[i].end /\ events[i].end <= now

\* C29: for an event with end = start, eventProgress is 100 when now >= start
\* and 0 when now < start, a defined number also when now = start.
C29_DegenerateProgress ==
  \A i \in DOMAIN events :
    events[i].start = events[i].end =>
      IsValue(eventProgress(events[i], now), IF now >= events[i].start THEN 100 ELSE 0)

\* C24: once applyCompletedIds has clamped an event's end, no later tick
\* changes that end: it stays the value written by the first clamp.
C24_FirstClampStays ==
  [][\A k \in DOMAIN events :
       events[k].mc => events'[k].end = events[k].end]_vars

\* A tick has run on an event clamped at an earlier instant, its id still in
\* the set: the event that starts at this instant is the current one.
C24_Witness ==
  /\ \E k \in DOMAIN events :
       events[k].mc /\ events[k].end < now /\ events[k].id \in completedIds
  /\ classified.current # Null
  /\ events[classified.current].start = now

\* C25: applyCompletedIds leaves every event whose id is not in the set, or
\* whose end is not after now, exactly as it was, and changes the start and
\* the id of no event.
C25_ApplyFrame ==
  [][/\ DOMAIN events' = DOMAIN events
     /\ \A k \in DOMAIN events :
          /\ events'[k].start = events[k].start
          /\ events'[k].id = events[k].id
          /\ (events[k].id \notin completedIds' \/ events[k].end <= now)
               => events'[k] = events[k]]_vars

\* A tick has clamped one event and left alone an unlisted event that is still
\* running.
C25_Witness ==
  /\ \E k \in DOMAIN events : events[k].mc /\ events[k].end = now
  /\ \E k \in DOMAIN events :
       /\ events[k].id \notin completedIds
       /\ events[k].end > now
       /\ events[k].end = provider[k].endDT
       /\ ~events[k].mc

\* An ascending sequence of indexes of events that holds exactly the set S.
Lists(q, S) ==
  /\ {q[k] : k \in DOMAIN q} = S
  /\ \A a \in DOMAIN q, b \in DOMAIN q : a < b => q[a] < q[b]

C26_BadgeIgnoresOverrides ==
  [][SteadyTick =>
       LET evs     == fetchEvents(TRUE, provider)
           current == bgCurrent(evs, now)
           next    == bgNext(evs, now)
           until   == RoundMinutes(evs[next].startDT - now)
           told    == {evs[i].id : i \in {j \in DOMAIN evs :
                         current = Null /\ j = next /\ until = NotifyAt}}
       IN  /\ badge' =
                IF current # Null THEN Shown(RoundMinutes(evs[current].endDT - now))
                ELSE IF next # Null /\ until <= BadgeHorizon THEN Shown(until)
                ELSE NoBadge
           /\ \A id \in BgIds :
                notes'[id] = notes[id] + (IF id \in told THEN 1 ELSE 0)
           /\ UNCHANGED <<store, completedIds, streakStore, record>>]_vars

\* An evaluation has set the badge from the event that is running while the
\* store holds that event's id and a streak is recorded.
C26_Witness ==
  /\ bpc = "wait"
  /\ badge # NoBadge
  /\ streakStore # NoRecord
  /\ \E k \in DOMAIN provider :
       /\ provider[k].id \in store
       /\ provider[k].startDT # NoDT /\ provider[k].endDT # NoDT
       /\ provider[k].startDT <= now /\ now < provider[k].endDT

\* C23: every render classifies a list to which the persisted overrides have
\* been applied, also when a drawer toggle, a tick or a mark click falls
\* between the fetch of a reload and its applyCompletedIds: no render
\* displays as current an event whose id is in the override set, persisted
\* and loaded.
C23_RenderAfterApply ==
  [][(\/ toggleDrawer
      \/ \E i \in DOMAIN tasks : TickFinish(i) \/ MarkFinish(i) \/ LoadFinish(i))
       => (classified'.current # Null
             => events'[classified'.current].id \notin (store' \cap completedIds'))]_vars

\* C27: when the undo of a manually completed event E finishes (the removal,
\* then the reload), E's id is in neither the persisted nor the loaded set,
\* E's end is the end the provider delivers, and E is the current event
\* exactly when its provider start <= now < provider end.
C27_UndoRestores ==
  [][\A i \in DOMAIN tasks :
       (/\ tasks[i].kind = "undo"
        /\ LoadFinish(i)
        /\ tasks[i].id \notin marked'
        /\ \A j \in DOMAIN tasks : ~(tasks[j].kind = "mark" /\ tasks[j].id = tasks[i].id))
       => /\ tasks[i].id \notin store'
          /\ tasks[i].id \notin completedIds'
          /\ \A k \in DOMAIN events' :
               events'[k].id = tasks[i].id =>
                 \E r \in DOMAIN provider :
                   /\ provider[r].id = tasks[i].id
                   /\ events'[k].end = provider[r].endDT
                   /\ (classified'.current = k) <=>
                        (provider[r].startDT <= now /\ now < provider[r].endDT)]_vars

====
